---- MODULE Spec2Model ----
(***************************************************************************)
(* TrainerTextClassification (tweetnlp/text_classification/trainer.py):    *)
(* the orchestrator object, the file system it writes to, and the four     *)
(* operations __init__, train, evaluate and push_to_hub, each executed as  *)
(* the sequence of statements of its body up to the first one that raises. *)
(* External collaborators (load_model, Trainer, ray tune, create_repo, the *)
(* shell) are inputs: where they can fail or choose, the action draws the  *)
(* outcome from a small set.                                               *)
(*                                                                         *)
(* Numbers: metric values are in thousandths, rounded down (0.5 is 500).   *)
(* Learning rates are in units of 1e-6 (1e-4 is 100).                      *)
(***************************************************************************)
EXTENDS Integers, Sequences, FiniteSets, TLC

VARIABLES obj, fs, last, mcase

vars == <<obj, fs, last, mcase>>

(***************************************************************************)
(* Bounds of the model.                                                    *)
(***************************************************************************)
\* longest search-range list a caller supplies
MaxRangeLen == 3
\* largest label mapping given to the constructor (names and ids)
MaxLabels == 2
\* examples in an evaluation batch handed to the metric functions
NumExamples == 2
\* everyday logits range over -MaxLogit..MaxLogit
MaxLogit == 1

\* math.exp(x) raises OverflowError from this x on (line 91)
ExpOverflowAt == 710

\* 1 + math.exp(-x) is 1.0 in double precision from this x on (line 91)
SigmoidOneAt == 37

None == "None"

Dirs == {"out1", "out2"}

DirArgs == Dirs \cup {None}

\* the output logits of an example: a problem of two labels
LabelColumns == {1, 2}

\* the keys of the dataset (and of tokenized_datasets)
DatasetSplits == {"train", "validation", "test"}

(***************************************************************************)
(* Python values.  A list argument that may be None is a record with a     *)
(* field none; a dict is the sequence of its <<key, value>> items in       *)
(* insertion order.                                                        *)
(***************************************************************************)
NoneArg == [none |-> TRUE]

Given(v) == [none |-> FALSE, v |-> v]

Range(s) == {s[i] : i \in DOMAIN s}

DictKeys(d) == {d[i][1] : i \in DOMAIN d}

DictValues(d) == {d[i][2] : i \in DOMAIN d}

DictGet(d, k) == LET i == CHOOSE i \in DOMAIN d : d[i][1] = k IN d[i][2]

\* d[k] = v: an existing key keeps its place and takes the new value
DictSet(d, k, v) ==
    IF k \in DictKeys(d)
    THEN [i \in DOMAIN d |-> IF d[i][1] = k THEN <<k, v>> ELSE d[i]]
    ELSE Append(d, <<k, v>>)

\* how a function call ends: with a value, or with an exception
Returned(v) == [returned |-> v]

Raised(exception) == [raised |-> exception]

Raises(r) == "raised" \in DOMAIN r

\* range(a, b)
PyRange(a, b) == [i \in 1..(IF b > a THEN b - a ELSE 0) |-> a + i - 1]

\* os.path.join(dir, name); a path is the pair
pj(dir, name) == <<dir, name>>

DirOf(path) == path[1]

(***************************************************************************)
(* get_metrics (lines 81-113).                                             *)
(***************************************************************************)
RECURSIVE SetSum(_, _)
SetSum(f, S) == IF S = {} THEN 0
                ELSE LET x == CHOOSE x \in S : TRUE IN f[x] + SetSum(f, S \ {x})

\* 1 / (1 + math.exp(-x)) for integer x, in thousandths, rounded down;
\* math.exp raises when its argument is too large for a double
sigmoid(x) ==
    LET pos == <<731, 880, 952, 982, 993, 997>>
        neg == <<268, 119, 47, 17, 6, 2>>
    IN IF 0 - x >= ExpOverflowAt THEN Raised("OverflowError")
       ELSE IF x = 0 THEN Returned(500)
       ELSE IF x >= SigmoidOneAt THEN Returned(1000)
       ELSE IF x > 0 THEN Returned(IF x <= Len(pos) THEN pos[x] ELSE 999)
       ELSE Returned(IF 0 - x <= Len(neg) THEN neg[0 - x] ELSE 0)

\* np.argmax(row): the first position holding the maximum, counted from 0
argmax(row) ==
    LET i == CHOOSE i \in DOMAIN row :
                 /\ \A j \in DOMAIN row : row[j] <= row[i]
                 /\ \A j \in DOMAIN row : j < i => row[j] < row[i]
    IN i - 1

\* the F1 of one class from its counts; 0.0 where it is undefined
F1Of(tp, fp, fn) ==
    IF 2 * tp + fp + fn = 0 THEN 0 ELSE (1000 * 2 * tp) \div (2 * tp + fp + fn)

\* the classes the f1 metric scores: every column of a multi-label
\* indicator matrix, or the class ids that occur in either list
MetricClasses(multi_label, predictions, references) ==
    IF multi_label
    THEN UNION {DOMAIN predictions[i] : i \in DOMAIN predictions}
    ELSE Range(predictions) \cup Range(references)

\* true positives, false positives, false negatives of class c
ClassCounts(multi_label, predictions, references, c) ==
    LET P(i) == IF multi_label THEN predictions[i][c] = 1 ELSE predictions[i] = c
        R(i) == IF multi_label THEN references[i][c] = 1 ELSE references[i] = c
        I == DOMAIN predictions
    IN [tp |-> Cardinality({i \in I : P(i) /\ R(i)}),
        fp |-> Cardinality({i \in I : P(i) /\ ~R(i)}),
        fn |-> Cardinality({i \in I : ~P(i) /\ R(i)})]

\* load_metric("f1"[, "multilabel"]).compute(..., average=average)
metric_f1(multi_label, predictions, references, average) ==
    LET C == MetricClasses(multi_label, predictions, references)
        n == [c \in C |-> ClassCounts(multi_label, predictions, references, c)]
    IN IF average = "micro"
       THEN [f1 |-> F1Of(SetSum([c \in C |-> n[c].tp], C),
                         SetSum([c \in C |-> n[c].fp], C),
                         SetSum([c \in C |-> n[c].fn], C))]
       ELSE [f1 |-> IF C = {} THEN 0
                    ELSE SetSum([c \in C |-> F1Of(n[c].tp, n[c].fp, n[c].fn)], C)
                             \div Cardinality(C)]

\* load_metric("accuracy"[, "multilabel"]).compute(...): exact matches
metric_accuracy(multi_label, predictions, references) ==
    LET I == DOMAIN predictions
    IN [accuracy |-> IF I = {} THEN 0
                     ELSE (1000 * Cardinality({i \in I : predictions[i] = references[i]}))
                              \div Cardinality(I)]

\* lines 93-99
compute_metric_search(multi_label, eval_pred) ==
    LET logits == eval_pred.logits
        labels == eval_pred.labels
        s == [i \in DOMAIN logits |->
                 [j \in DOMAIN logits[i] |-> sigmoid(logits[i][j])]]
    IN IF multi_label /\ \E i \in DOMAIN s : \E j \in DOMAIN s[i] : Raises(s[i][j])
       THEN Raised("OverflowError")
       ELSE LET predictions ==
                    IF multi_label
                    THEN [i \in DOMAIN logits |->
                             [j \in DOMAIN logits[i] |->
                                 IF s[i][j].returned > 500 THEN 1 ELSE 0]]
                    ELSE [i \in DOMAIN logits |-> argmax(logits[i])]
            IN Returned(metric_f1(multi_label, predictions, labels, "micro"))

\* lines 101-111: the dict of lines 107-111, in the order its items are written
compute_metric_all(multi_label, eval_pred) ==
    LET logits == eval_pred.logits
        labels == eval_pred.labels
        s == [i \in DOMAIN logits |->
                 [j \in DOMAIN logits[i] |-> sigmoid(logits[i][j])]]
    IN IF multi_label /\ \E i \in DOMAIN s : \E j \in DOMAIN s[i] : Raises(s[i][j])
       THEN Raised("OverflowError")
       ELSE LET predictions ==
                    IF multi_label
                    THEN [i \in DOMAIN logits |->
                             [j \in DOMAIN logits[i] |->
                                 IF s[i][j].returned > 500 THEN 1 ELSE 0]]
                    ELSE [i \in DOMAIN logits |-> argmax(logits[i])]
            IN Returned(
                 << <<"f1", metric_f1(multi_label, predictions, labels, "micro").f1>>,
                    <<"f1_macro", metric_f1(multi_label, predictions, labels, "macro").f1>>,
                    <<"accuracy",
                      metric_accuracy(multi_label, predictions, labels).accuracy>> >>)

(***************************************************************************)
(* The orchestrator object and the file system.                            *)
(***************************************************************************)
FileNames == {"best_model", "best_run_hyperparameters.json", "metric.json"}

Paths == DirArgs \X FileNames

Absent == [kind |-> "absent"]

\* json.dump(data, f) into a file opened with 'w': the old content is gone,
\* and the file holds the object's member names and its member values, in
\* the dict's order
JsonFile(data) ==
    [kind |-> "json",
     names |-> [i \in DOMAIN data |-> data[i][1]],
     values |-> [i \in DOMAIN data |-> data[i][2]]]

\* the directory trainer.save_model writes: the model of the Trainer of lines
\* 137-155, which was handed self.model (138) and a model_init that loads
\* language_model (148-154)
ModelDir(trainer) ==
    [kind |-> "model", model |-> trainer.model, model_init |-> trainer.model_init]

\* what load_model is asked to load: a model identifier or a local path
ModelId(name) == [id |-> name]

ModelPath(path) == [path |-> path]

NoModel == [id |-> None]

NoTrainer == [model |-> NoModel, model_init |-> NoModel]

NoObj == [alive |-> FALSE, language_model |-> None, multi_label |-> FALSE,
          output_dir |-> None,
          split_test |-> None, split_train |-> None, split_validation |-> None,
          model_config |-> [label2id |-> <<>>, id2label |-> <<>>, problem_type |-> None],
          model |-> NoModel,
          best_model_path |-> pj(None, "best_model"),
          best_run_hyperparameters_path |-> pj(None, "best_run_hyperparameters.json")]

exists(f, path) == f.files[path] # Absent

\* os.makedirs(dir, exist_ok=True)
makedirs(f, dir) == [f EXCEPT !.dirs = @ \cup {dir}]

\* open(path, 'w') and write: needs the directory
CanOpenForWrite(f, path) == DirOf(path) \in f.dirs

WriteFile(f, path, content) == [f EXCEPT !.files[path] = content]

id2label_of_enumerate(label_to_id) ==
    [i \in DOMAIN label_to_id |-> <<i - 1, label_to_id[i][1]>>]

\* {v: k for k, v in label_to_id.items()} (line 54)
RECURSIVE id2label_of(_)
id2label_of(label_to_id) ==
    IF label_to_id = <<>> THEN <<>>
    ELSE LET n == Len(label_to_id)
             item == label_to_id[n]
         IN DictSet(id2label_of(SubSeq(label_to_id, 1, n - 1)), item[2], item[1])

export_file_init_dir(o) == pj(DirOf(o.best_model_path), "metric.json")

\* line 79, after the assertion of line 78
export_file(o) == pj(o.output_dir, "metric.json")

evaluate_model_source_configured(o, f) == ModelId(o.language_model)

\* line 201: the argument of load_model
evaluate_model_source(o, f) ==
    IF ~exists(f, o.best_model_path) THEN ModelId(o.language_model)
    ELSE ModelPath(o.best_model_path)

\* lines 159 and 161
search_range_ok(r) == Len(r) = 2

evaluate_result_known_keys(metrics) ==
    SelectSeq(metrics, LAMBDA item : item[1] \in {"f1", "f1_macro", "accuracy"})

\* line 213: result = {k: v for k, v in trainer.evaluate().items()}
evaluate_result(metrics) == [i \in DOMAIN metrics |-> <<metrics[i][1], metrics[i][2]>>]

(***************************************************************************)
(* Collaborators.                                                          *)
(***************************************************************************)
DefaultSearchRangeLr == <<1, 100>>

DefaultSearchRangeEpoch == <<1, 6>>

DefaultSearchListBatch == <<4, 8, 16, 32, 64>>

\* TrainingArguments(output_dir, evaluation_strategy="steps", ...): the
\* attributes the run later sets, with the library's defaults
TrainingArguments(strategy) ==
    << <<"evaluation_strategy", strategy>>, <<"learning_rate", 50>>,
       <<"num_train_epochs", 3>>, <<"per_device_train_batch_size", 8>> >>

\* the trial hyperparameter_search returns: pick is the search's choice
\* within the space, the low or the high end of each dimension
BestRun(space, pick) ==
    LET at(c) == IF pick = "lo" THEN c[1] ELSE c[Len(c)]
    IN << <<"learning_rate", at(space.learning_rate)>>,
          <<"num_train_epochs", at(space.num_train_epochs)>>,
          <<"per_device_train_batch_size", at(space.per_device_train_batch_size)>> >>

\* Trainer.evaluate(): the compute_metrics dict as the collaborator returns
\* it.  "plain" hands it back as it is; "prefixed" is the transformers
\* Trainer, which prefixes every key with eval_ and adds eval_loss.
TrainerEvaluate(mode, metrics) ==
    IF mode = "plain" THEN metrics
    ELSE <<<<"eval_loss", 0>>>> \o
         [i \in DOMAIN metrics |-> <<"eval_" \o metrics[i][1], metrics[i][2]>>]

ShellCommands == <<"cd", "git lfs install", "git add", "git commit", "git push", "cd ..">>

\* cmd1 && cmd2 && ...: the commands that run when `failing` exits non-zero
RECURSIVE ShellRun(_, _)
ShellRun(cmds, failing) ==
    IF cmds = <<>> THEN <<>>
    ELSE IF Head(cmds) = failing THEN <<Head(cmds)>>
    ELSE <<Head(cmds)>> \o ShellRun(Tail(cmds), failing)

(***************************************************************************)
(* One call.  w is the call in progress: the object and the file system as *)
(* the statements executed so far have left them, the statements executed  *)
(* (log), the locals, and outcome: "running", or the exception raised.     *)
(***************************************************************************)
StartCall(o, f) ==
    [obj |-> o, fs |-> f, log |-> <<>>, outcome |-> "running",
     search_range_lr |-> <<>>, search_range_epoch |-> <<>>,
     search_space |-> NoneArg, best_run |-> NoneArg, args |-> <<>>,
     trainer |-> NoTrainer, source |-> NoModel, metrics |-> NoneArg,
     result |-> NoneArg, ret |-> NoneArg, status |-> 0]

Raise(w, exception) == [w EXCEPT !.outcome = exception]

\* a collaborator call that the input makes fail raises; else w becomes after
Collaborate(w, in, name, after) ==
    IF in.fail = name THEN Raise(w, "CollaboratorError") ELSE after

RECURSIVE SetAttrs(_, _)
SetAttrs(args, items) ==
    IF items = <<>> THEN args
    ELSE SetAttrs(DictSet(args, Head(items)[1], Head(items)[2]), Tail(items))

\* the effect of one statement (group) of a method body
Step(name, w0, in) ==
    LET w == [w0 EXCEPT !.log = Append(@, name)]
        o == w.obj
    IN CASE name = "init_attrs" ->                                  \* 40-53
              [w EXCEPT !.obj = [NoObj EXCEPT !.alive = TRUE,
                                              !.language_model = in.language_model,
                                              !.multi_label = in.multi_label,
                                              !.output_dir = in.output_dir]]
         [] name = "init_model_config" ->                           \* 54-56
              [w EXCEPT !.obj.model_config =
                   [label2id |-> in.label_to_id,
                    id2label |-> id2label_of(in.label_to_id),
                    problem_type |-> IF o.multi_label
                                     THEN "multi_label_classification" ELSE None]]
         [] name = "init_load_model" ->                             \* 57-62
              Collaborate(w, in, name,
                  [w EXCEPT !.obj.model = ModelId(o.language_model)])
         [] name = "init_tokenize" ->                               \* 63-66
              Collaborate(w, in, name, w)
         [] name = "init_get_metrics" ->                            \* 68, 83-88
              Collaborate(w, in, name, w)
         [] name = "init_paths" ->                                  \* 69-70
              IF o.output_dir = None THEN Raise(w, "TypeError")
              ELSE [w EXCEPT !.obj.best_model_path = pj(o.output_dir, "best_model"),
                             !.obj.best_run_hyperparameters_path =
                                 pj(o.output_dir, "best_run_hyperparameters.json")]
         [] name = "init_splits" ->                                 \* 72-74
              [w EXCEPT !.obj.split_test = in.split_test,
                        !.obj.split_train = in.split_train,
                        !.obj.split_validation = in.split_validation]
         [] name = "set_output_dir" ->                  \* 127-128, 194-195, 232-233
              IF in.output_dir # None
              THEN [w EXCEPT !.obj.output_dir = in.output_dir] ELSE w
         [] name = "assert_output_dir" ->                         \* 129, 196, 234
              IF o.output_dir # None THEN w ELSE Raise(w, "AssertionError")
         [] name = "makedirs" ->                                    \* 130
              [w EXCEPT !.fs = makedirs(w.fs, o.output_dir)]
         [] name = "set_split_test" ->                              \* 197-198, 239-240
              IF in.split_test # None
              THEN [w EXCEPT !.obj.split_test = in.split_test] ELSE w
         [] name = "set_split_train" ->                             \* 131-132, 235-236
              IF in.split_train # None
              THEN [w EXCEPT !.obj.split_train = in.split_train] ELSE w
         [] name = "set_split_validation" ->                        \* 133-134, 237-238
              IF in.split_validation # None
              THEN [w EXCEPT !.obj.split_validation = in.split_validation] ELSE w
         [] name = "train_Trainer" ->                               \* 137-155
              IF \/ o.split_train \notin DatasetSplits
                 \/ o.split_validation \notin DatasetSplits
              THEN Raise(w, "KeyError")
              ELSE Collaborate(w, in, name,
                       [w EXCEPT !.args = TrainingArguments("steps"),
                                 !.trainer = [model |-> o.model,
                                              model_init |-> ModelId(o.language_model)]])
         [] name = "assert_search_range_lr" ->                      \* 158-159
              LET r == IF in.search_range_lr.none THEN DefaultSearchRangeLr
                       ELSE in.search_range_lr.v
              IN IF search_range_ok(r) THEN [w EXCEPT !.search_range_lr = r]
                 ELSE Raise(w, "AssertionError")
         [] name = "assert_search_range_epoch" ->                   \* 160-161
              LET r == IF in.search_range_epoch.none THEN DefaultSearchRangeEpoch
                       ELSE in.search_range_epoch.v
              IN IF search_range_ok(r) THEN [w EXCEPT !.search_range_epoch = r]
                 ELSE Raise(w, "AssertionError")
         [] name = "search_space" ->                                \* 162-167
              [w EXCEPT !.search_space = Given(
                   [learning_rate |-> w.search_range_lr,
                    num_train_epochs |-> PyRange(w.search_range_epoch[1],
                                                 w.search_range_epoch[2]),
                    per_device_train_batch_size |->
                        IF in.search_list_batch.none THEN DefaultSearchListBatch
                        ELSE in.search_list_batch.v])]
         [] name = "hyperparameter_search" ->                       \* 172-179
              LET space == w.search_space.v
              IN IF \/ space.num_train_epochs = <<>>
                    \/ space.per_device_train_batch_size = <<>>
                 THEN Raise(w, "CollaboratorError")
                 ELSE Collaborate(w, in, name,
                          [w EXCEPT !.best_run = Given(BestRun(space, in.pick))])
         [] name = "write_hyperparameters" ->                       \* 181-182
              IF ~CanOpenForWrite(w.fs, o.best_run_hyperparameters_path)
              THEN Raise(w, "FileNotFoundError")
              ELSE [w EXCEPT !.fs = WriteFile(w.fs, o.best_run_hyperparameters_path,
                                              JsonFile(w.best_run.v))]
         [] name = "apply_hyperparameters" ->                       \* 184-186
              [w EXCEPT !.args = DictSet(SetAttrs(w.args, w.best_run.v),
                                         "evaluation_strategy", "no")]
         [] name = "train" ->                                       \* 187
              Collaborate(w, in, name, w)
         [] name = "save_model" ->                                  \* 188
              Collaborate(w, in, name,
                  [w EXCEPT !.fs = WriteFile(makedirs(w.fs, DirOf(o.best_model_path)),
                                             o.best_model_path,
                                             ModelDir(w.trainer))])
         [] name = "eval_load_model" ->                             \* 200-206
              LET src == evaluate_model_source(o, w.fs)
              IN Collaborate([w EXCEPT !.source = src], in, name,
                     [w EXCEPT !.source = src, !.obj.model = src])
         [] name = "eval_Trainer" ->                                \* 207-212
              IF o.split_test \notin DatasetSplits THEN Raise(w, "KeyError")
              ELSE Collaborate(w, in, name,
                       IF in.trainer_makedirs
                       THEN [w EXCEPT !.fs = makedirs(w.fs, o.output_dir)] ELSE w)
         [] name = "evaluate" ->                                    \* 213
              LET computed == compute_metric_all(o.multi_label, in.eval_pred)
                  m == TrainerEvaluate(in.mode, computed.returned)
              IN IF in.fail = name THEN Raise(w, "CollaboratorError")
                 ELSE IF Raises(computed) THEN Raise(w, computed.raised)
                 ELSE [w EXCEPT !.metrics = Given(m),
                                !.result = Given(evaluate_result(m))]
         [] name = "export" ->                                      \* 215-216
              IF ~CanOpenForWrite(w.fs, export_file(o))
              THEN Raise(w, "FileNotFoundError")
              ELSE [w EXCEPT !.fs = WriteFile(w.fs, export_file(o),
                                              JsonFile(w.result.v))]
         [] name = "return_result" ->                               \* 217
              [w EXCEPT !.ret = w.result]
         [] name = "create_repo" ->                                 \* 242
              Collaborate(w, in, name, w)
         [] name = "get_readme" ->                                  \* 246-255
              Collaborate(w, in, name, w)
         [] name = "write_readme" ->                                \* 256-257
              IF in.clone_exists THEN w ELSE Raise(w, "FileNotFoundError")
         [] name = "copy_hyperparameters" ->                        \* 258-259
              IF exists(w.fs, o.best_run_hyperparameters_path) THEN w ELSE w0
         [] name = "os_system" ->                                   \* 260-261
              [w0 EXCEPT !.log = @ \o ShellRun(ShellCommands, in.shell_fail),
                         !.status = IF in.shell_fail \in Range(ShellCommands)
                                    THEN 1 ELSE 0]

\* the statements in order, up to the first that raises
RECURSIVE RunSteps(_, _, _)
RunSteps(steps, w, in) ==
    IF steps = <<>> THEN [w EXCEPT !.outcome = "ok"]
    ELSE LET w1 == Step(Head(steps), w, in)
         IN IF w1.outcome # "running" THEN w1
            ELSE RunSteps(Tail(steps), w1, in)

initSteps ==
    <<"init_attrs", "init_model_config", "init_load_model", "init_tokenize",
      "init_get_metrics", "init_paths", "init_splits">>

trainSteps_save_first ==
    <<"set_output_dir", "assert_output_dir", "makedirs", "set_split_train",
      "set_split_validation", "train_Trainer", "assert_search_range_lr",
      "assert_search_range_epoch", "search_space", "hyperparameter_search",
      "apply_hyperparameters", "train", "save_model", "write_hyperparameters">>

trainSteps ==
    <<"set_output_dir", "assert_output_dir", "makedirs", "set_split_train",
      "set_split_validation", "train_Trainer", "assert_search_range_lr",
      "assert_search_range_epoch", "search_space", "hyperparameter_search",
      "write_hyperparameters", "apply_hyperparameters", "train", "save_model">>

evaluateSteps ==
    <<"set_output_dir", "assert_output_dir", "set_split_test", "eval_load_model",
      "eval_Trainer", "evaluate", "export", "return_result">>

push_to_hubSteps ==
    <<"set_output_dir", "assert_output_dir", "set_split_train",
      "set_split_validation", "set_split_test", "create_repo", "get_readme",
      "write_readme", "copy_hyperparameters", "os_system">>

(***************************************************************************)
(* Inputs.                                                                 *)
(***************************************************************************)
LabelNames == <<"negative", "neutral", "positive", "mixed">>

\* label_to_id dicts of up to MaxLabels names, ids in 0..MaxLabels-1, two
\* names possibly sharing an id
LabelMappings ==
    UNION {{[i \in 1..k |-> <<LabelNames[i], ids[i]>>] :
                ids \in [1..k -> 0..(MaxLabels - 1)]} : k \in 0..MaxLabels}

\* search_range_lr / search_range_epoch: None, or a list of 0..MaxRangeLen bounds;
\* the lists are the first n bounds of the default range, continued upwards
SearchRangeArgs(default) ==
    {NoneArg} \cup
    {Given([i \in 1..n |-> IF i <= Len(default) THEN default[i]
                           ELSE default[Len(default)] + i]) : n \in 0..MaxRangeLen}

\* a supplied range the assertions of lines 159 and 161 are there to reject
Malformed(r) == ~r.none /\ Len(r.v) # 2

\* what the collaborators of one train call do: the one that fails, if any,
\* and the trial the search picks; a search that fails or is not reached
\* picks nothing
TrainCollaborators ==
    {[fail |-> f, pick |-> p] : f \in {"none", "train", "save_model"},
                                p \in {"lo", "hi"}}
    \cup {[fail |-> f, pick |-> "lo"] : f \in {"train_Trainer", "hyperparameter_search"}}

\* of one evaluate call: the one that fails, if any; whether the Trainer
\* creates its output_dir; how the Trainer reports the metrics
EvaluateCollaborators ==
    {[fail |-> f, trainer_makedirs |-> FALSE, mode |-> "plain"] :
         f \in {"eval_load_model", "eval_Trainer"}}
    \cup {[fail |-> "evaluate", trainer_makedirs |-> m, mode |-> "plain"] :
              m \in BOOLEAN}
    \cup {[fail |-> "none", trainer_makedirs |-> m, mode |-> mode] :
              m \in BOOLEAN, mode \in {"plain", "prefixed"}}

\* of one push_to_hub call: the one that fails, if any; whether the clone
\* directory is there; the shell command that exits non-zero, if any
PublishCollaborators ==
    {[fail |-> f, clone_exists |-> TRUE, shell_fail |-> "none"] :
         f \in {"create_repo", "get_readme"}}
    \cup {[fail |-> "none", clone_exists |-> FALSE, shell_fail |-> "none"]}
    \cup {[fail |-> "none", clone_exists |-> TRUE, shell_fail |-> c] :
              c \in {"none"} \cup Range(ShellCommands)}

\* the split arguments of a call: all left at None, or each naming its split
NoSplits == [test |-> None, train |-> None, validation |-> None]

AllSplits == [test |-> "test", train |-> "train", validation |-> "validation"]

\* the model's output on the test split: (logits, labels)
TestPreds(multi_label) ==
    IF multi_label
    THEN {[logits |-> <<<<1, -1>>, <<0, 1>>>>, labels |-> <<<<1, 1>>, <<0, 1>>>>],
          [logits |-> <<<<1, 0 - ExpOverflowAt>>, <<0, SigmoidOneAt>>>>,
           labels |-> <<<<1, 0>>, <<0, 1>>>>]}
    ELSE {[logits |-> <<<<1, 0>>, <<0, 0>>>>, labels |-> <<0, 1>>]}

Logits == (0 - MaxLogit)..MaxLogit

\* logits at the ends of what sigmoid computes
ExtremeLogits == {0 - ExpOverflowAt, SigmoidOneAt}

\* every (logits, labels) batch of NumExamples examples with logits in
\* Logits, and the same batches with an extreme first logit
EvalPreds(multi_label) ==
    LET everyday == [1..NumExamples -> [LabelColumns -> Logits]]
    IN [logits : everyday \cup
                 {[l EXCEPT ![1][1] = x] : l \in everyday, x \in ExtremeLogits},
        labels : IF multi_label THEN [1..NumExamples -> [LabelColumns -> {0, 1}]]
                 ELSE [1..NumExamples -> {c - 1 : c \in LabelColumns}]]

(***************************************************************************)
(* State: obj is the orchestrator (self), fs the file system, last the     *)
(* most recent call (what it executed, how it ended, what it returned),    *)
(* mcase a call of the metric functions on their own.                      *)
(***************************************************************************)
NoCall == [op |-> "none", dir_missing |-> FALSE, malformed |-> FALSE,
           log |-> <<>>, outcome |-> "ok", ret |-> NoneArg, best_run |-> NoneArg,
           args |-> <<>>, source |-> NoModel, metrics |-> NoneArg, status |-> 0]

CallRecord(op, w, dir_missing, malformed) ==
    [op |-> op, dir_missing |-> dir_missing, malformed |-> malformed,
     log |-> w.log, outcome |-> w.outcome, ret |-> w.ret, best_run |-> w.best_run,
     args |-> w.args, source |-> w.source, metrics |-> w.metrics,
     status |-> w.status]

NoCase == [multi_label |-> FALSE, eval_pred |-> [logits |-> <<>>, labels |-> <<>>],
           search |-> NoneArg, all |-> NoneArg]

EmptyFs == [dirs |-> {}, files |-> [p \in Paths |-> Absent]]

Init ==
    /\ obj = NoObj
    /\ fs = EmptyFs
    /\ last = NoCall
    /\ mcase = NoCase

\* TrainerTextClassification(language_model, dataset, label_to_id, ...): one
\* orchestrator per behaviour; a constructor that raised leaves none
Construct(language_model, label_to_id, multi_label, output_dir, splits, fail) ==
    LET in == [language_model |-> language_model, label_to_id |-> label_to_id,
               multi_label |-> multi_label, output_dir |-> output_dir,
               split_test |-> splits.test, split_train |-> splits.train,
               split_validation |-> splits.validation, fail |-> fail]
        w == RunSteps(initSteps, StartCall(NoObj, fs), in)
    IN /\ ~obj.alive
       /\ obj' = IF w.outcome = "ok" THEN w.obj ELSE obj
       /\ fs' = w.fs
       /\ last' = CallRecord("construct", w, output_dir = None, FALSE)
       /\ UNCHANGED mcase

\* self.train(output_dir=..., split_train=..., split_validation=...,
\*            search_range_lr=..., search_range_epoch=..., ...)
Train(output_dir, splits, search_range_lr, search_range_epoch, search_list_batch, fail, pick) ==
    LET in == [output_dir |-> output_dir, split_train |-> splits.train,
               split_validation |-> splits.validation,
               search_range_lr |-> search_range_lr,
               search_range_epoch |-> search_range_epoch,
               search_list_batch |-> search_list_batch, fail |-> fail, pick |-> pick]
        w == RunSteps(trainSteps, StartCall(obj, fs), in)
    IN /\ obj.alive
       /\ obj' = w.obj
       /\ fs' = w.fs
       /\ last' = CallRecord("train", w, output_dir = None /\ obj.output_dir = None,
                             Malformed(search_range_lr) \/ Malformed(search_range_epoch))
       /\ UNCHANGED mcase

\* self.evaluate(split_test=..., output_dir=...)
Evaluate(split_test, output_dir, eval_pred, mode, trainer_makedirs, fail) ==
    LET in == [split_test |-> split_test, output_dir |-> output_dir,
               eval_pred |-> eval_pred, mode |-> mode,
               trainer_makedirs |-> trainer_makedirs, fail |-> fail]
        w == RunSteps(evaluateSteps, StartCall(obj, fs), in)
    IN /\ obj.alive
       /\ obj' = w.obj
       /\ fs' = w.fs
       /\ last' = CallRecord("evaluate", w, output_dir = None /\ obj.output_dir = None,
                             FALSE)
       /\ UNCHANGED mcase

\* self.push_to_hub(hf_organization, model_alias, split_train=..., ...,
\*                  output_dir=...)
Publish(splits, output_dir, clone_exists, shell_fail, fail) ==
    LET in == [split_test |-> splits.test, split_train |-> splits.train,
               split_validation |-> splits.validation, output_dir |-> output_dir,
               clone_exists |-> clone_exists, shell_fail |-> shell_fail, fail |-> fail]
        w == RunSteps(push_to_hubSteps, StartCall(obj, fs), in)
    IN /\ obj.alive
       /\ obj' = w.obj
       /\ fs' = w.fs
       /\ last' = CallRecord("publish", w, output_dir = None /\ obj.output_dir = None,
                             FALSE)
       /\ UNCHANGED mcase

\* the calls a caller makes, in any order and number.  The constructor is
\* given a single-label problem of two labels, and out1 or nothing as its
\* output_dir, and names the splits or leaves them at None; the methods are
\* given either directory or None.  Train is called with ranges that are
\* None or of two bounds and any collaborators, or with a malformed range
\* and collaborators that work.
Next ==
    \/ \E output_dir \in {None, "out1"}, splits \in {NoSplits, AllSplits},
          fail \in {"none", "init_load_model", "init_tokenize", "init_get_metrics"} :
          Construct("roberta-base", <<<<"negative", 0>>, <<"positive", 1>>>>,
                    FALSE, output_dir, splits, fail)
    \/ \E output_dir \in DirArgs,
          lr \in SearchRangeArgs(DefaultSearchRangeLr),
          ep \in SearchRangeArgs(DefaultSearchRangeEpoch) :
          \E c \in IF Malformed(lr) \/ Malformed(ep)
                    THEN {c \in TrainCollaborators : c.fail = "none"}
                    ELSE TrainCollaborators :
              Train(output_dir, NoSplits, lr, ep, NoneArg, c.fail, c.pick)
    \/ \E output_dir \in DirArgs, eval_pred \in TestPreds(obj.multi_label),
          c \in EvaluateCollaborators :
          Evaluate(None, output_dir, eval_pred, c.mode, c.trainer_makedirs, c.fail)
    \/ \E output_dir \in DirArgs, c \in PublishCollaborators :
          Publish(NoSplits, output_dir, c.clone_exists, c.shell_fail, c.fail)

Spec == Init /\ [][Next]_vars

(***************************************************************************)
(* The label mapping: every label_to_id within the bounds given to the     *)
(* constructor, with or without split names, then the three methods called *)
(* with the splits named or left at None and the rest at its default.      *)
(***************************************************************************)
NextLabels ==
    \/ \E label_to_id \in LabelMappings, multi_label \in BOOLEAN,
          splits \in [test : {None, "test"}, train : {None, "train"},
                      validation : {None, "validation", "dev"}] :
          Construct("roberta-base", label_to_id, multi_label, "out1", splits, "none")
    \/ \E splits \in {NoSplits, AllSplits}, pick \in {"lo", "hi"} :
          Train(None, splits, NoneArg, NoneArg, Given(<<4, 64>>), "none", pick)
    \/ \E split_test \in {None, "test"}, eval_pred \in TestPreds(obj.multi_label) :
          Evaluate(split_test, None, eval_pred, "prefixed", TRUE, "none")
    \/ \E splits \in {NoSplits, AllSplits}, shell_fail \in {"none", "git push"} :
          Publish(splits, None, TRUE, shell_fail, "none")

SpecLabels == Init /\ [][NextLabels]_vars

(***************************************************************************)
(* The metric functions on their own: the two functions get_metrics        *)
(* returns, applied to one batch, every batch within the bounds.           *)
(***************************************************************************)
CallMetricSearch(multi_label, eval_pred) ==
    /\ mcase' = [NoCase EXCEPT !.multi_label = multi_label,
                               !.eval_pred = eval_pred,
                               !.search = Given(compute_metric_search(multi_label,
                                                                      eval_pred))]
    /\ UNCHANGED <<obj, fs, last>>

CallMetricAll ==
    /\ ~mcase.search.none
    /\ mcase.all.none
    /\ mcase' = [mcase EXCEPT !.all =
                     Given(compute_metric_all(mcase.multi_label, mcase.eval_pred))]
    /\ UNCHANGED <<obj, fs, last>>

NextMetric ==
    \/ /\ mcase = NoCase
       /\ \E multi_label \in BOOLEAN :
              \E eval_pred \in EvalPreds(multi_label) :
                  CallMetricSearch(multi_label, eval_pred)
    \/ CallMetricAll

SpecMetric == Init /\ [][NextMetric]_vars

(***************************************************************************)
(* Properties.                                                             *)
(***************************************************************************)
Events(call) == Range(call.log)

\* the log cut down to the events of S, in the order they happened
Only(log, S) == SelectSeq(log, LAMBDA e : e \in S)

IsPrefix(s, t) == Len(s) <= Len(t) /\ \A i \in DOMAIN s : s[i] = t[i]

\* the position of event e in the log, 0 when it did not happen
At(log, e) == IF e \in Range(log) THEN CHOOSE i \in DOMAIN log : log[i] = e ELSE 0

HyperparametersFile == "best_run_hyperparameters.json"

\* json.load(f): the dict a JSON file reads back as; None for no such file
JsonLoad(file) ==
    IF file = [kind |-> "absent"] THEN [none |-> TRUE]
    ELSE [none |-> FALSE,
          v |-> [i \in DOMAIN file.names |-> <<file.names[i], file.values[i]>>]]

\* C1: a train call whose search_range_lr or search_range_epoch is supplied
\* with a length other than 2 fails with an AssertionError, never starts the
\* hyperparameter search, and leaves every best_run_hyperparameters.json and
\* best_model on the file system as it was.
C1_TrainRejectsMalformedRange ==
    [][(last'.op = "train" /\ last'.malformed) =>
          /\ last'.outcome = "AssertionError"
          /\ "hyperparameter_search" \notin Events(last')
          /\ "write_hyperparameters" \notin Events(last')
          /\ "save_model" \notin Events(last')
          /\ \A d \in DirArgs :
                 /\ fs'.files[<<d, HyperparametersFile>>] =
                        fs.files[<<d, HyperparametersFile>>]
                 /\ fs'.files[<<d, "best_model">>] = fs.files[<<d, "best_model">>]]_vars

\* C2: evaluate loads the best-model path when that path exists at the call
\* and the configured model identifier exactly when it does not; a train
\* that completed has persisted a model at that path, and the path, once
\* written, stays, so every later evaluate loads it.
C2_EvaluatePrefersBestModel ==
    /\ [](/\ (last.op = "evaluate" /\ "eval_load_model" \in Events(last)) =>
                 /\ fs.files[obj.best_model_path] # Absent
                        => last.source = [path |-> obj.best_model_path]
                 /\ fs.files[obj.best_model_path] = Absent
                        => last.source = [id |-> obj.language_model]
          /\ (last.op = "train" /\ last.outcome = "ok") =>
                 fs.files[obj.best_model_path] # Absent)
    /\ [][(obj.alive /\ fs.files[obj.best_model_path] # Absent) =>
              /\ obj'.best_model_path = obj.best_model_path
              /\ fs'.files[obj.best_model_path] # Absent]_vars

C2_Witness ==
    /\ last.op = "evaluate"
    /\ last.outcome = "ok"
    /\ last.source = [path |-> <<"out1", "best_model">>]
    /\ obj.model = last.source

TrainOrder ==
    <<"hyperparameter_search", "write_hyperparameters", "apply_hyperparameters",
      "train", "save_model">>

\* C3: in every train run the search, the write of the best trial's
\* hyperparameters, their application (with evaluation switched off), the
\* one further training and the save of the best model happen in this order,
\* each at most once; a completed run did all five and left the file
\* holding the best trial's hyperparameters; the best model is saved only
\* after the file was written and the training ran.
C3_TrainStepOrder ==
    last.op = "train" =>
        LET log == last.log
            hp == last.best_run.v
        IN /\ IsPrefix(Only(log, Range(TrainOrder)), TrainOrder)
           /\ last.outcome = "ok" => Only(log, Range(TrainOrder)) = TrainOrder
           /\ (At(log, "write_hyperparameters") # 0
                   /\ last.outcome # "FileNotFoundError") =>
                  JsonLoad(fs.files[obj.best_run_hyperparameters_path])
                      = [none |-> FALSE, v |-> hp]
           /\ At(log, "train") # 0 =>
                  /\ \A i \in DOMAIN hp :
                         \E j \in DOMAIN last.args : last.args[j] = hp[i]
                  /\ <<"evaluation_strategy", "no">> \in Range(last.args)
                  /\ <<"evaluation_strategy", "steps">> \notin Range(last.args)
           /\ At(log, "save_model") # 0 =>
                  /\ 0 < At(log, "write_hyperparameters")
                  /\ At(log, "write_hyperparameters") < At(log, "train")
                  /\ At(log, "train") < At(log, "save_model")

C3_Witness ==
    /\ last.op = "train"
    /\ last.outcome = "ok"
    /\ fs.files[<<"out1", "best_model">>] # Absent
    /\ JsonLoad(fs.files[<<"out1", HyperparametersFile>>]) = last.best_run

Expensive ==
    {"init_load_model", "init_tokenize", "hyperparameter_search", "train",
     "eval_load_model", "evaluate"}

\* C4: a call made with the output location missing fails with an
\* AssertionError raised before model loading, tokenization, search,
\* training or inference has begun (constructor, train, evaluate, publish).
C4_FailFastOnMissingOutputDir ==
    last.dir_missing =>
        /\ last.outcome = "AssertionError"
        /\ Events(last) \cap Expensive = {}

MetricKeys == {"f1", "f1_macro", "accuracy"}

\* C5 as stated: the report evaluate returns and persists has exactly the
\* keys f1, f1_macro and accuracy.
C5_ReportHasExactlyMetricKeys ==
    (last.op = "evaluate" /\ last.outcome = "ok") =>
        /\ DictKeys(last.ret.v) = MetricKeys
        /\ DictKeys(JsonLoad(fs.files[<<obj.output_dir, "metric.json">>]).v) = MetricKeys

\* C5 amended: the report evaluate returns and persists is the mapping the
\* evaluation collaborator returned, key for key and value for value; the
\* three metrics f1, f1_macro and accuracy are in it, each under its own
\* name or under the collaborator's eval_ prefix.
C5_ReportIsCollaboratorMapping ==
    (last.op = "evaluate" /\ last.outcome = "ok") =>
        /\ last.ret.v = last.metrics.v
        /\ JsonLoad(fs.files[<<obj.output_dir, "metric.json">>]) = last.metrics
        /\ \/ MetricKeys = DictKeys(last.ret.v)
           \/ {"eval_" \o k : k \in MetricKeys} \subseteq DictKeys(last.ret.v)
        /\ Len(last.ret.v) = Cardinality(DictKeys(last.ret.v))

C5_Witness ==
    /\ last.op = "evaluate"
    /\ last.outcome = "ok"
    /\ "eval_f1_macro" \in DictKeys(last.ret.v)
    /\ "eval_loss" \in DictKeys(last.ret.v)

\* C6: after an evaluate that returned, metric.json at the current output
\* location holds exactly the mapping that call returned, whatever an
\* earlier evaluate wrote there.
C6_MetricFileIsLastReport ==
    (last.op = "evaluate" /\ last.outcome = "ok") =>
        /\ ~last.ret.none
        /\ JsonLoad(fs.files[<<obj.output_dir, "metric.json">>]) = last.ret

C6_Witness ==
    /\ last.op = "evaluate"
    /\ last.outcome = "ok"
    /\ obj.output_dir = "out2"
    /\ fs.files[<<"out1", "metric.json">>] # Absent
    /\ fs.files[<<"out2", "metric.json">>] # fs.files[<<"out1", "metric.json">>]
    /\ JsonLoad(fs.files[<<"out2", "metric.json">>]) = last.ret

\* id2label is the exact inverse of label2id
IsInverse(label2id, id2label) ==
    /\ Len(id2label) = Len(label2id)
    /\ Cardinality(DictKeys(id2label)) = Len(id2label)
    /\ \A i \in DOMAIN label2id :
           \E j \in DOMAIN id2label :
               id2label[j][1] = label2id[i][2] /\ id2label[j][2] = label2id[i][1]
    /\ \A j \in DOMAIN id2label :
           \E i \in DOMAIN label2id :
               id2label[j][1] = label2id[i][2] /\ id2label[j][2] = label2id[i][1]

Injective(d) == Cardinality(DictValues(d)) = Len(d)

\* C7 as stated: for every label mapping of size K the id-to-label mapping
\* has K entries and is the exact inverse.
C7_Id2LabelIsInverse ==
    obj.alive => IsInverse(obj.model_config.label2id, obj.model_config.id2label)

\* C7 amended: for every label mapping of size K in which no two names share
\* an id, the id-to-label mapping has K entries and is the exact inverse;
\* when names share an id it has one entry per id, holding a name mapped to
\* that id; train, evaluate and publish leave the mapping as it is.
C7_Id2LabelIsInverseIfInjective ==
    /\ [](obj.alive =>
            LET label2id == obj.model_config.label2id
                id2label == obj.model_config.id2label
            IN /\ Injective(label2id) => IsInverse(label2id, id2label)
               /\ DictKeys(id2label) = DictValues(label2id)
               /\ Len(id2label) = Cardinality(DictValues(label2id))
               /\ \A j \in DOMAIN id2label :
                      <<id2label[j][2], id2label[j][1]>> \in Range(label2id))
    /\ [][obj.alive => obj'.model_config = obj.model_config]_vars

C7_Witness ==
    /\ obj.alive
    /\ Len(obj.model_config.label2id) = 2
    /\ Injective(obj.model_config.label2id)
    /\ obj.model_config.label2id[1][2] = 1
    /\ last.op = "publish"
    /\ fs.files[<<"out1", "metric.json">>] # Absent
    /\ fs.files[<<"out1", "best_model">>] # Absent

\* the prediction rule of the claim, from the logits alone
RulePredictions(multi_label, logits) ==
    IF multi_label
    THEN [i \in DOMAIN logits |->
             [j \in DOMAIN logits[i] |-> IF logits[i][j] > 0 THEN 1 ELSE 0]]
    ELSE [i \in DOMAIN logits |->
             CHOOSE c \in {k - 1 : k \in DOMAIN logits[i]} :
                 /\ \A k \in DOMAIN logits[i] : logits[i][k] <= logits[i][c + 1]
                 /\ \A k \in DOMAIN logits[i] :
                        k < c + 1 => logits[i][k] < logits[i][c + 1]]

\* micro-F1 by hand, in thousandths: all decisions pooled
RuleMicroF1(multi_label, predictions, labels) ==
    LET I == DOMAIN predictions
        Cells == IF multi_label
                 THEN {<<i, j>> \in I \X LabelColumns : TRUE}
                 ELSE {}
        tp == Cardinality({c \in Cells : predictions[c[1]][c[2]] = 1
                                         /\ labels[c[1]][c[2]] = 1})
        fp == Cardinality({c \in Cells : predictions[c[1]][c[2]] = 1
                                         /\ labels[c[1]][c[2]] = 0})
        fn == Cardinality({c \in Cells : predictions[c[1]][c[2]] = 0
                                         /\ labels[c[1]][c[2]] = 1})
        right == Cardinality({i \in I : predictions[i] = labels[i]})
    IN IF multi_label
       THEN (IF tp + fp + fn = 0 THEN 0 ELSE (2000 * tp) \div (2 * tp + fp + fn))
       ELSE (1000 * right) \div Cardinality(I)

\* C8: for every batch the search metric and the evaluation metrics score
\* the same predictions: label 1 exactly for a logit whose logistic value
\* exceeds 0.5 (a logit of 0 gives 0) and 0 otherwise in multi-label mode,
\* the argmax class otherwise; the search objective is the micro-F1 of
\* those predictions and equals the f1 entry of the evaluation metrics on
\* the same batch.
C8_SearchAndEvaluationMetricsAgree ==
    LET rule == RuleMicroF1(mcase.multi_label,
                            RulePredictions(mcase.multi_label, mcase.eval_pred.logits),
                            mcase.eval_pred.labels)
    IN /\ ~mcase.search.none => mcase.search.v = [returned |-> [f1 |-> rule]]
       /\ ~mcase.all.none =>
              /\ "returned" \in DOMAIN mcase.all.v
              /\ DictGet(mcase.all.v.returned, "f1") = rule

\* C9: publish runs add, commit, push in this order after the README is
\* written, and a publish in which add, commit or push failed does not
\* return normally.
C9_PublishFailsWhenShellFails ==
    last.op = "publish" =>
        /\ "git push" \in Events(last) =>
               /\ 0 < At(last.log, "write_readme")
               /\ At(last.log, "write_readme") < At(last.log, "git add")
               /\ At(last.log, "git add") < At(last.log, "git commit")
               /\ At(last.log, "git commit") < At(last.log, "git push")
        /\ (last.status # 0
               /\ last.log[Len(last.log)] \in {"git add", "git commit", "git push"})
               => last.outcome # "ok"

\* C10: the hyperparameters file, the best-model directory and metric.json
\* are all addressed under the current output location.
C10_ArtifactsUnderCurrentOutputDir ==
    obj.alive =>
        /\ DirOf(obj.best_run_hyperparameters_path) = obj.output_dir
        /\ DirOf(obj.best_model_path) = obj.output_dir
        /\ DirOf(export_file(obj)) = obj.output_dir

====
